---- MODULE Spec2Model ----
(***************************************************************************)
(* Model of the equitable resource allocation engine of @spiralsafe/core   *)
(* (packages/core/privacy/scaling-algo.ts): allocateResources,             *)
(* createEmptyAllocation and calculateGini; and of two classes of          *)
(* quantum-ethics: ResourceScheduler (src/resource-allocation.ts) and      *)
(* ConfigurationManager (src/config-toggles.ts).                           *)
(*                                                                         *)
(* One call of allocateResources is a run of the state machine:            *)
(*   idle --Call--> start --EmptyPath--> done                              *)
(*   start --Proportional--> loop --RedistributeStep*--> loop             *)
(*   loop --LoopExit--> metrics --Finish--> done                           *)
(*                                                                         *)
(* Specifications.  Spec: one call, non-negative amounts and capacity.     *)
(* SpecSigned: one call, amounts and capacity of either sign.              *)
(* SpecEligible: one call, longer lists of eligible demands.               *)
(* SpecSink: one call, the audit sink may fail.                            *)
(* SpecCalls: calls one after another.  SpecZones: a call and the same     *)
(* call in other timezones.  SpecScores: a call and the same call with     *)
(* other coherence scores.  SpecDocumented: one call, the calls of the     *)
(* test suite and calls with larger amounts included.  SpecScheduler:      *)
(* enqueue and dequeue on one ResourceScheduler.  SpecConfig: method calls *)
(* on a ConfigurationManager.                                              *)
(*                                                                         *)
(* Numbers.  The code computes with IEEE-754 doubles.  Integer-valued      *)
(* quantities (amount, capacity, allocated, remaining, totals) are         *)
(* integers here, with the sentinels NaN, Infinity and -Infinity for what  *)
(* a division by 0 produces.  Ratios (fill_rate, efficiency, the fairness  *)
(* metrics) are fractions [n, d] in lowest terms, the real value the       *)
(* double rounds; the fractions 0/0, 1/0 and -1/0 are the NaN, Infinity    *)
(* and -Infinity of a ratio.  Every 0 is the positive zero: no input and   *)
(* no divisor of the code is -0.  Correctly rounded division is            *)
(* monotone and maps equal quotients to equal doubles, so comparing two    *)
(* fill rates by cross-multiplication orders them as the code's            *)
(* a.fill_rate - b.fill_rate does.  floor(amount / total * capacity) is    *)
(* computed as the doubles compute it: see FloatShort.                     *)
(***************************************************************************)
EXTENDS Integers, Sequences, FiniteSets, TLC

\* ---------------------------------------------------------------- bounds
\* demands per call when no demand names a timezone
MaxDemands == 3
\* demands per call when demands may name a timezone
MaxZoned == 2
MaxAmount == 3
MaxCapacity == 5
\* demands per call when amounts and capacity may be negative
MaxSigned == 2
\* demands per call when every demand is eligible and names no timezone
MaxEligible == 5
\* demands per call, and calls per run, when calls follow one another
MaxRepeat == 2
MaxCalls == 3
\* enqueue calls on one ResourceScheduler, and ticks of its clock
MaxEnqueues == 4
MaxClock == 2
\* calls on one ConfigurationManager
MaxUpdates == 3

\* ------------------------------------------------------ program constants
BASELINE_COHERENCE == 80
\* BASELINE_COHERENCE * 0.8
MIN_COHERENCE_THRESHOLD == 64

\* coherence_score?: number -- the field is absent
NoScore == -1
\* timezone?: string -- the field is absent
NoTz == "absent"
\* the double NaN in an integer-valued quantity
NaN == -1000000
\* the double Infinity in an integer-valued quantity; -Infinity is its
\* negative
Infinity == 2000000
\* the double NaN in a ratio; Infinity is [n |-> 1, d |-> 0] and
\* -Infinity is [n |-> -1, d |-> 0]
RNaN == [n |-> 0, d |-> 0]

Scores == {NoScore, 63, 64}
Zones == {NoTz, "PST"}

\* ------------------------------------------------------------- fractions
RECURSIVE GCD(_, _)
GCD(a, b) == IF b = 0 THEN a ELSE GCD(b, a % b)

Abs(x) == IF x < 0 THEN -x ELSE x

Sign(x) == IF x < 0 THEN -1 ELSE IF x > 0 THEN 1 ELSE 0

\* the fraction num/den in lowest terms with a positive denominator; with
\* den = 0 it is what the division of the doubles gives, Infinity,
\* -Infinity or NaN by the sign of num
Rat(num, den) ==
  IF den = 0 THEN [n |-> Sign(num), d |-> 0]
  ELSE LET g == GCD(Abs(num), Abs(den))
           sgn == IF den < 0 THEN -1 ELSE 1
       IN [n |-> (sgn * num) \div g, d |-> (sgn * den) \div g]

RZero == [n |-> 0, d |-> 1]
ROne == [n |-> 1, d |-> 1]
\* x < y: false when either side is NaN
RLt(x, y) ==
  IF x.d # 0 /\ y.d # 0 THEN x.n * y.d < y.n * x.d
  ELSE IF x = RNaN \/ y = RNaN THEN FALSE
  ELSE IF x.d = 0 THEN x.n < 0 /\ y # x
  ELSE y.n > 0
RLeq(x, y) ==
  IF x.d # 0 /\ y.d # 0 THEN x.n * y.d <= y.n * x.d
  ELSE IF x = RNaN \/ y = RNaN THEN FALSE
  ELSE x = y \/ RLt(x, y)
\* -x
RNeg(x) == [n |-> -x.n, d |-> x.d]
\* x + y: Infinity + -Infinity is NaN
RAdd(x, y) ==
  IF x.d # 0 /\ y.d # 0 THEN Rat(x.n * y.d + y.n * x.d, x.d * y.d)
  ELSE IF x.d # 0 THEN y
  ELSE IF y.d # 0 THEN x
  ELSE IF x.n = y.n THEN x
  ELSE RNaN
RSub(x, y) ==
  IF x.d # 0 /\ y.d # 0 THEN Rat(x.n * y.d - y.n * x.d, x.d * y.d)
  ELSE RAdd(x, RNeg(y))
\* x * y: 0 * Infinity is NaN
RMul(x, y) ==
  IF x.d # 0 /\ y.d # 0 THEN Rat(x.n * y.n, x.d * y.d)
  ELSE [n |-> Sign(x.n) * Sign(y.n), d |-> 0]
\* x / k for an integer k > 0
RDivInt(x, k) == IF x.d # 0 THEN Rat(x.n, x.d * k) ELSE x
\* 1 / y
RInv(y) == IF y.d # 0 THEN Rat(y.d, y.n) ELSE [n |-> 0, d |-> Abs(y.n)]
\* x / y
RDiv(x, y) ==
  IF x.d # 0 /\ y.d # 0 /\ y.n # 0 THEN Rat(x.n * y.d, x.d * y.n)
  ELSE RMul(x, RInv(y))

RECURSIVE RSum(_)
RSum(s) == IF s = <<>> THEN RZero ELSE RAdd(Head(s), RSum(Tail(s)))

\* ------------------------------------------------------- number helpers
IsFinite(a) == a \notin {NaN, Infinity, -Infinity}
\* a + b: Infinity + -Infinity is NaN
JsAdd(a, b) ==
  IF a = NaN \/ b = NaN THEN NaN
  ELSE IF ~IsFinite(a) THEN (IF b = -a THEN NaN ELSE a)
  ELSE IF ~IsFinite(b) THEN b
  ELSE a + b
\* a - b
JsSub(a, b) == IF b = NaN THEN NaN ELSE JsAdd(a, -b)
\* a < b: false when either side is NaN
JsLt(a, b) == a # NaN /\ b # NaN /\ a < b
\* a > b
JsGt(a, b) == a # NaN /\ b # NaN /\ a > b
\* a / b
JsDiv(a, b) ==
  IF a = NaN \/ b = NaN THEN RNaN
  ELSE IF IsFinite(a) /\ IsFinite(b) THEN Rat(a, b)
  ELSE IF IsFinite(b) THEN [n |-> Sign(a) * (IF b < 0 THEN -1 ELSE 1), d |-> 0]
  ELSE IF IsFinite(a) THEN RZero
  ELSE RNaN

\* The triples (amount, total, capacity), 0 <= amount <= total <= 40 and
\* 0 <= capacity <= 40, for which the double product (amount / total) *
\* capacity falls just below the integer amount * capacity / total, so
\* that Math.floor yields one less than the exact quotient.  Everywhere
\* else in that range, and for every amount in -6..6, capacity in -8..8
\* and total in -40..40 other than 0, Math.floor((amount / total) *
\* capacity) is the integer floor of the exact quotient.
FloatShort ==
  { <<15, 22, 22>>, <<13, 23, 23>>, <<15, 26, 26>>, <<31, 39, 39>> }

\* the greatest integer not above x / y, y # 0
FloorDiv(x, y) == IF y > 0 THEN x \div y ELSE (-x) \div (-y)

\* Math.floor(proportion * capacity) when totalWeightedDemand is 0:
\* proportion is NaN (0 / 0) or an infinity of the sign of amount, and an
\* infinity times capacity is NaN (capacity 0) or an infinity
FloorShareOfNone(amount, cap) ==
  IF amount = 0 \/ cap = 0 THEN NaN ELSE Sign(amount) * Sign(cap) * Infinity

\* Math.floor(proportion * capacity), proportion = amount / total
FloorShare(amount, total, cap) ==
  IF total = 0 THEN FloorShareOfNone(amount, cap)
  ELSE IF <<amount, total, cap>> \in FloatShort
       THEN FloorDiv(amount * cap, total) - 1
       ELSE FloorDiv(amount * cap, total)

\* ------------------------------------------------------------------ state
VARIABLES
  demands,       \* the demands argument: Seq of DemandInfo
  capacity,      \* the capacity argument
  pc,            \* position in allocateResources
  nValid,        \* validDemands.length
  allocations,   \* [...validAllocations, ...invalidAllocations]
  remaining,     \* let remaining
  iterations,    \* history: iterations of the while loop so far
  remaining0,    \* history: remaining when the loop was entered
  lastAgent,     \* history: index in allocations the last iteration served
  trail,         \* number of entries handed to createTrailEntry
  report,        \* the returned AllocationResult, NoReport before return
  earlier        \* history: an earlier call and what it returned

\* the variables of a call of allocateResources
allocVars == <<demands, capacity, pc, nValid, allocations, remaining,
               iterations, remaining0, lastAgent, trail, report, earlier>>

\* a ResourceScheduler (quantum-ethics/src/resource-allocation.ts)
VARIABLES
  queue,         \* this.queue: Seq of [id, priority, submittedAt]
  now,           \* the clock new Date() reads, in milliseconds
  enqueued,      \* history: calls of enqueue so far
  dequeued,      \* history: calls of dequeue that returned an allocation
  lastDequeued   \* history: what the last dequeue returned

schedVars == <<queue, now, enqueued, dequeued, lastDequeued>>

\* a ConfigurationManager (quantum-ethics/src/config-toggles.ts)
VARIABLES
  config,         \* this.config
  configHistory,  \* this.configHistory: Seq of [timestamp, config, reason]
  lastCall,       \* history: the last method called and its argument
  outcome,        \* history: "returned" or "threw", how that call ended
  updates         \* history: method calls so far

cfgVars == <<config, configHistory, lastCall, outcome, updates>>

vars == <<allocVars, schedVars, cfgVars>>

NoReport == [returned |-> FALSE]
NoEarlier == [set |-> FALSE]
\* the value undefined
Undefined == 0

\* DemandInfo; agent_id is the position in the input list
DemandInfo ==
  [amount : 0..MaxAmount, coherence_score : Scores, timezone : Zones]

\* a demand that names no timezone
PlainDemandInfo ==
  [amount : 0..MaxAmount, coherence_score : Scores, timezone : {NoTz}]

\* the demand lists a caller passes
DemandLists ==
  UNION ({ [1..k -> PlainDemandInfo] : k \in 0..MaxDemands }
         \cup { [1..k -> DemandInfo] : k \in 0..MaxZoned })

\* --------------------------------------------------------- eligibility
\* d.coherence_score ?? BASELINE_COHERENCE
EffectiveScore(d) ==
  IF d.coherence_score = NoScore THEN BASELINE_COHERENCE
  ELSE d.coherence_score

IsValidAbove(d) == EffectiveScore(d) > MIN_COHERENCE_THRESHOLD
\* the predicate of demands.filter for validDemands
IsValid(d) == EffectiveScore(d) >= MIN_COHERENCE_THRESHOLD

\* the predicate of demands.filter for invalidDemands
IsInvalid(d) == EffectiveScore(d) < MIN_COHERENCE_THRESHOLD

\* indices of s, in order, whose element satisfies the filter
RECURSIVE FilterIdx(_, _, _)
FilterIdx(s, i, valid) ==
  IF i > Len(s) THEN <<>>
  ELSE IF (valid /\ IsValid(s[i])) \/ (~valid /\ IsInvalid(s[i]))
       THEN <<i>> \o FilterIdx(s, i + 1, valid)
       ELSE FilterIdx(s, i + 1, valid)

validDemandsLastFirst(ds) ==
  [k \in 1..Len(FilterIdx(ds, 1, TRUE)) |->
     FilterIdx(ds, 1, TRUE)[Len(FilterIdx(ds, 1, TRUE)) + 1 - k]]
validDemands(ds) == FilterIdx(ds, 1, TRUE)
invalidDemands(ds) == FilterIdx(ds, 1, FALSE)

\* ------------------------------------------------- proportional allocation
Min(a, b) == IF a < b THEN a ELSE b

RECURSIVE WeightedDemandToZoned(_, _, _)
WeightedDemandToZoned(ds, idx, k) ==
  IF k = 0 THEN 0
  ELSE WeightedDemandToZoned(ds, idx, k - 1)
         + ds[idx[k]].amount * (IF ds[idx[k]].timezone = NoTz THEN 1 ELSE 2)
RECURSIVE WeightedDemandToScored(_, _, _)
WeightedDemandToScored(ds, idx, k) ==
  IF k = 0 THEN 0
  ELSE WeightedDemandToScored(ds, idx, k - 1)
         + ds[idx[k]].amount
             * (IF ds[idx[k]].coherence_score > 64 THEN 2 ELSE 1)
\* adjustedDemands.reduce((sum, d) => sum + d.amount * d.weight, 0), weight 1.0
RECURSIVE WeightedDemandTo(_, _, _)
WeightedDemandTo(ds, idx, k) ==
  IF k = 0 THEN 0
  ELSE WeightedDemandTo(ds, idx, k - 1) + ds[idx[k]].amount

totalWeightedDemand(ds, idx) == WeightedDemandTo(ds, idx, Len(idx))

RawAllocatedUnraised(amount, total, cap) == FloorShare(amount, total, cap)
\* let allocated = Math.floor(proportion * capacity), then the minimum
\* allocation: if (allocated === 0 && capacity > 0 && d.amount > 0)
RawAllocated(amount, total, cap) ==
  LET allocated == FloorShare(amount, total, cap)
  IN IF allocated = 0 /\ cap > 0 /\ amount > 0
     THEN Min(1, cap)
     ELSE allocated

\* fill_rate: d.amount > 0 ? allocated / d.amount : 1.0
FillRate(allocated, amount) ==
  IF amount > 0 THEN JsDiv(allocated, amount) ELSE ROne

\* one element of validAllocations
ValidAllocation(ds, i, total, cap) ==
  LET allocated == RawAllocated(ds[i].amount, total, cap)
  IN [agent_id |-> i,
      allocated |-> allocated,
      requested |-> ds[i].amount,
      fill_rate |-> FillRate(allocated, ds[i].amount)]

ZeroAllocationFilled(ds, i) ==
  [agent_id |-> i,
   allocated |-> 0,
   requested |-> ds[i].amount,
   fill_rate |-> ROne]
\* one element of invalidAllocations, and of createEmptyAllocation's list
ZeroAllocation(ds, i) ==
  [agent_id |-> i,
   allocated |-> 0,
   requested |-> ds[i].amount,
   fill_rate |-> RZero]

\* validAllocations = adjustedDemands.map(...)
validAllocations(ds, cap) ==
  LET idx == validDemands(ds)
      total == totalWeightedDemand(ds, idx)
  IN [k \in 1..Len(idx) |-> ValidAllocation(ds, idx[k], total, cap)]

\* invalidAllocations = invalidDemands.map(...)
invalidAllocations(ds) ==
  LET idx == invalidDemands(ds)
  IN [k \in 1..Len(idx) |-> ZeroAllocation(ds, idx[k])]

\* reduce((sum, a) => sum + a.allocated, 0)
RECURSIVE SumAllocatedTo(_, _)
SumAllocatedTo(as, k) ==
  IF k = 0 THEN 0
  ELSE JsAdd(SumAllocatedTo(as, k - 1), as[k].allocated)

\* a NaN term makes every later partial sum, and the result, NaN
SumAllocated(as) == SumAllocatedTo(as, Len(as))

\* reduce((sum, a) => sum + a.requested, 0)
RECURSIVE SumRequestedTo(_, _)
SumRequestedTo(as, k) ==
  IF k = 0 THEN 0
  ELSE SumRequestedTo(as, k - 1) + as[k].requested

SumRequestedOfAllocated(as) == SumAllocatedTo(as, Len(as))
\* totalRequested
SumRequested(as) == SumRequestedTo(as, Len(as))

\* ------------------------------------------------------- redistribution
NeedySetAll(as, nv) ==
  { i \in 1..Len(as) : JsLt(as[i].allocated, as[i].requested) }
\* .filter((a) => a.allocated < a.requested) over validAllocations, which
\* are the first nv entries of allocations: the positions that still have
\* unfilled demand
NeedySet(as, nv) ==
  { i \in 1..nv : JsLt(as[i].allocated, as[i].requested) }

SortsBeforeTiesLast(as, i, j) ==
  \/ RLt(as[i].fill_rate, as[j].fill_rate)
  \/ (~RLt(as[j].fill_rate, as[i].fill_rate) /\ i > j)
\* .sort((a, b) => a.fill_rate - b.fill_rate) puts position i before
\* position j: the lower fill_rate first and, the sort being stable, the
\* earlier position first among equal fill rates
SortsBefore(as, i, j) ==
  \/ RLt(as[i].fill_rate, as[j].fill_rate)
  \/ (~RLt(as[j].fill_rate, as[i].fill_rate) /\ i < j)

\* needyAgents: the filtered positions in sorted order
needyAgents(as, nv) ==
  LET needy == NeedySet(as, nv)
  IN [p \in 1..Cardinality(needy) |->
        CHOOSE i \in needy :
          Cardinality({ j \in needy : SortsBefore(as, j, i) }) = p - 1]

LoopContinuesUncapped(rem, as, nv) == needyAgents(as, nv) # <<>>
LoopContinuesStopsEarly(rem, as, nv) ==
  JsGt(rem, 1) /\ needyAgents(as, nv) # <<>>
\* while (remaining > 0) ... if (needyAgents.length === 0) break
LoopContinues(rem, as, nv) == JsGt(rem, 0) /\ needyAgents(as, nv) # <<>>

ServedKeepsRate(a) == [a EXCEPT !.allocated = JsAdd(a.allocated, 1)]
\* agent.allocated += 1; agent.fill_rate = agent.allocated / agent.requested
Served(a) ==
  [a EXCEPT !.allocated = JsAdd(a.allocated, 1),
            !.fill_rate = JsDiv(JsAdd(a.allocated, 1), a.requested)]

\* ------------------------------------------------------ fairness metrics
\* allocations.map((a) => a.fill_rate)
fillRates(as) == [k \in 1..Len(as) |-> as[k].fill_rate]

\* [...values].sort((a, b) => a - b) of values none of which is NaN: the
\* difference is negative where RLt holds, and 0 or NaN, which sort
\* takes for 0, between equal values
SortedRates(values) == SortSeq(values, RLt)

RECURSIVE GiniSumZeroBased(_, _, _)
GiniSumZeroBased(sorted, k, n) ==
  IF k > n THEN RZero
  ELSE RAdd(RMul(Rat(2 * (k - 1) - n - 1, 1), sorted[k]),
            GiniSumZeroBased(sorted, k + 1, n))
\* sum += (2 * (i + 1) - n - 1) * sorted[i], i = 0..n-1 (k = i + 1)
RECURSIVE GiniSum(_, _, _)
GiniSum(sorted, k, n) ==
  IF k > n THEN RZero
  ELSE RAdd(RMul(Rat(2 * k - n - 1, 1), sorted[k]), GiniSum(sorted, k + 1, n))

\* The exact sum of the loop is 0 when all n values are one value x; the
\* double sum is 0 as well, except where a partial sum is rounded: for n
\* <= 6 and x = a/b with b <= 4 and a <= 8 these are the <<n, a, b>> for
\* which the loop leaves a negative double,
GiniSumBelow == { <<5, 1, 3>>, <<5, 2, 3>>, <<5, 4, 3>>, <<5, 8, 3>> }
\* and those for which it leaves a positive double.
GiniSumAbove == { <<5, 5, 3>>, <<5, 7, 3>> }

\* The quotient sum / (n * n * mean) of such a residue is a double of the
\* same sign and of magnitude about 3e-17; in this model, the fraction of
\* that sign nearest to 0.
RJustBelowZero == [n |-> -1, d |-> 1073741824]
RJustAboveZero == [n |-> 1, d |-> 1073741824]

\* calculateGini(values): sum / (n * n * mean || 1).  A NaN among the
\* values makes sum and mean NaN in whatever order sort leaves them, and
\* n * n * mean || 1 is then 1.
calculateGini(values) ==
  IF Len(values) = 0 THEN RZero
  ELSE IF \E k \in 1..Len(values) : values[k] = RNaN THEN RNaN
  ELSE LET sorted == SortedRates(values)
           n == Len(sorted)
           sum == GiniSum(sorted, 1, n)
           mean == RDivInt(RSum(sorted), n)
           denom == RMul(Rat(n * n, 1), mean)
           same == \A k \in 1..n : sorted[k] = sorted[1]
           key == <<n, sorted[1].n, sorted[1].d>>
       IN IF same /\ key \in GiniSumBelow THEN RJustBelowZero
          ELSE IF same /\ key \in GiniSumAbove THEN RJustAboveZero
          ELSE IF denom.n = 0 THEN sum
          ELSE RDiv(sum, denom)

\* Math.min(...fillRates), Math.max(...fillRates) of a non-empty list:
\* NaN when a value is NaN
RECURSIVE RMinOf(_)
RMinOf(s) ==
  IF Len(s) = 1 THEN s[1]
  ELSE LET m == RMinOf(Tail(s))
       IN IF m = RNaN \/ s[1] = RNaN THEN RNaN
          ELSE IF RLt(m, s[1]) THEN m ELSE s[1]

RECURSIVE RMaxOf(_)
RMaxOf(s) ==
  IF Len(s) = 1 THEN s[1]
  ELSE LET m == RMaxOf(Tail(s))
       IN IF m = RNaN \/ s[1] = RNaN THEN RNaN
          ELSE IF RLt(s[1], m) THEN m ELSE s[1]

\* validDemands[i]?.timezone ?? "UTC"
TzOf(d) == IF d.timezone = NoTz THEN "UTC" ELSE d.timezone

\* the rates pushed under tz: for i < validDemands.length the rate is
\* allocations[i].fill_rate and the zone that of validDemands[i]
RECURSIVE TzRates(_, _, _, _)
TzRates(ds, vidx, as, tz) ==
  IF vidx = <<>> THEN <<>>
  ELSE LET k == Len(vidx)
           front == TzRates(ds, SubSeq(vidx, 1, k - 1), as, tz)
       IN IF TzOf(ds[vidx[k]]) = tz
          THEN Append(front, as[k].fill_rate)
          ELSE front

\* the keys of the timezones map
TzKeys(ds, vidx) == { TzOf(ds[vidx[k]]) : k \in 1..Len(vidx) }

\* rates.reduce((a, b) => a + b, 0) / rates.length
TzMean(ds, vidx, as, tz) ==
  LET rates == TzRates(ds, vidx, as, tz)
  IN RDivInt(RSum(rates), Len(rates))

\* tzMeans.reduce((a, b) => a + b, 0) over the zones in keys
RECURSIVE TzMeanSum(_, _, _, _)
TzMeanSum(keys, ds, vidx, as) ==
  IF keys = {} THEN RZero
  ELSE LET tz == CHOOSE z \in keys : TRUE
       IN RAdd(TzMean(ds, vidx, as, tz),
               TzMeanSum(keys \ {tz}, ds, vidx, as))

\* the sum over the zones in keys of (mean - avgMean) ** 2
RECURSIVE TzSquareSum(_, _, _, _, _)
TzSquareSum(keys, ds, vidx, as, avgMean) ==
  IF keys = {} THEN RZero
  ELSE LET tz == CHOOSE z \in keys : TRUE
           dist == RSub(TzMean(ds, vidx, as, tz), avgMean)
       IN RAdd(RMul(dist, dist),
               TzSquareSum(keys \ {tz}, ds, vidx, as, avgMean))

\* tzVariance: 0 with fewer than two zones
tzVariance(ds, vidx, as) ==
  LET keys == TzKeys(ds, vidx)
      cnt == Cardinality(keys)
  IN IF cnt > 1
     THEN LET avgMean == RDivInt(TzMeanSum(keys, ds, vidx, as), cnt)
          IN RDivInt(TzSquareSum(keys, ds, vidx, as, avgMean), cnt)
     ELSE RZero

\* Math.max(0, 100 - tzVariance * 100): NaN when the difference is NaN
timezoneParity(ds, vidx, as) ==
  LET p == RSub(Rat(100, 1), RMul(tzVariance(ds, vidx, as), Rat(100, 1)))
  IN IF p = RNaN THEN RNaN ELSE IF RLt(p, RZero) THEN RZero ELSE p

\* efficiency: capacity > 0 ? (totalAllocated / capacity) * 100 : 0
Efficiency(totalAllocated, cap) ==
  IF cap > 0 THEN RMul(JsDiv(totalAllocated, cap), Rat(100, 1)) ELSE RZero

\* ------------------------------------------------------------- reports
\* atom_tag: `ATOM-ALLOC-${Date.now()}`
AtomTag(time) == <<"ATOM-ALLOC", time>>

\* the AllocationResult returned at the end of allocateResources;
\* provenance.trail_id is the id of the entry createTrailEntry returned
NormalReport(ds, cap, as, trailId) ==
  LET rates == fillRates(as)
  IN [returned |-> TRUE,
      allocations |-> as,
      total_allocated |-> SumAllocated(as),
      total_requested |-> SumRequested(as),
      efficiency |-> Efficiency(SumAllocated(as), cap),
      gini_coefficient |-> calculateGini(rates),
      min_fill_rate |-> RMinOf(rates),
      max_fill_rate |-> RMaxOf(rates),
      avg_fill_rate |-> RDivInt(RSum(rates), Len(rates)),
      timezone_parity |-> timezoneParity(ds, validDemands(ds), as),
      atom_tag |-> AtomTag(now),
      trail_id |-> trailId]

\* demands.reduce((sum, d) => sum + d.amount, 0)
RECURSIVE SumAmount(_)
SumAmount(ds) ==
  IF ds = <<>> THEN 0 ELSE Head(ds).amount + SumAmount(Tail(ds))

createEmptyAllocationValidOnly(ds, cap, trailId) ==
  [returned |-> TRUE,
   allocations |->
     [k \in 1..Len(validDemands(ds)) |->
        ZeroAllocation(ds, validDemands(ds)[k])],
   total_allocated |-> 0,
   total_requested |-> SumAmount(ds),
   efficiency |-> RZero,
   gini_coefficient |-> RZero,
   min_fill_rate |-> RZero,
   max_fill_rate |-> RZero,
   avg_fill_rate |-> RZero,
   timezone_parity |-> Rat(100, 1),
   atom_tag |-> AtomTag(now),
   trail_id |-> trailId]
\* createEmptyAllocation(demands, capacity)
createEmptyAllocation(ds, cap, trailId) ==
  [returned |-> TRUE,
   allocations |-> [k \in 1..Len(ds) |-> ZeroAllocation(ds, k)],
   total_allocated |-> 0,
   total_requested |-> SumAmount(ds),
   efficiency |-> RZero,
   gini_coefficient |-> RZero,
   min_fill_rate |-> RZero,
   max_fill_rate |-> RZero,
   avg_fill_rate |-> RZero,
   timezone_parity |-> Rat(100, 1),
   atom_tag |-> AtomTag(now),
   trail_id |-> trailId]

\* createTrailEntry(decision): the audit sink records the entry and
\* returns its id
createTrailEntry(n) == n + 1

\* -------------------------------------------------- configuration
\* coherenceBaseline is counted in hundredths: 0.8 is 80.  A Partial<...>
\* is a function from the keys that are given to their values.
DEFAULT_CONFIG ==
  [filters |-> [coherenceBaseline |-> 80,
                timezoneParity |-> TRUE,
                noiseScrub |-> "high"],
   toggles |-> [encryptPii |-> TRUE,
                simulateDecoherence |-> FALSE,
                fairnessAudit |-> TRUE],
   metadata |-> [version |-> "1.0.0",
                 description |-> "Default quantum ethics configuration"]]

\* the argument undefined, and what JSON.parse makes of "null"
NoOverride == [absent |-> TRUE]

\* { ...base, ...given }; spreading undefined adds nothing
Spread(base, given) ==
  [k \in DOMAIN base \cup DOMAIN given |->
     IF k \in DOMAIN given THEN given[k] ELSE base[k]]

\* override.filters, override.toggles, override.metadata: undefined when
\* the key is absent
Part(override, key) == IF key \in DOMAIN override THEN override[key] ELSE <<>>

\* mergeConfig(base, override)
mergeConfig(base, override) ==
  IF override = NoOverride THEN base
  ELSE [filters |-> Spread(base.filters, Part(override, "filters")),
        toggles |-> Spread(base.toggles, Part(override, "toggles")),
        metadata |-> Spread(base.metadata, Part(override, "metadata"))]

validNoiseLevels == {"low", "medium", "high"}

\* validateConfig(config) throws: errors.length > 0
validateConfigThrows(cfg) ==
  \/ cfg.filters.coherenceBaseline < 50
  \/ cfg.filters.coherenceBaseline > 100
  \/ cfg.filters.noiseScrub \notin validNoiseLevels

\* the entry logConfigChange pushes
HistoryEntry(reason, cfg, time) ==
  [timestamp |-> time, config |-> cfg, reason |-> reason]

\* JSON texts a caller passes to setConfigFromJSON
JsonBaseline == "{\"filters\":{\"coherenceBaseline\":0.9}}"

JsonLowBaseline ==
  "{\"filters\":{\"coherenceBaseline\":0.4},"
    \o "\"toggles\":{\"encryptPii\":false}}"

JsonNoise == "{\"filters\":{\"noiseScrub\":\"extreme\"}}"

JsonToggles ==
  "{\"toggles\":{\"fairnessAudit\":false},"
    \o "\"metadata\":{\"description\":\"lab\"}}"

JsonEmpty == "{}"

JsonNull == "null"

JsonCut == "{\"filters\":"

JsonTexts ==
  { JsonBaseline, JsonLowBaseline, JsonNoise, JsonToggles, JsonEmpty,
    JsonNull, JsonCut }

\* JSON.parse(json) throws a SyntaxError
JsonParseThrows(json) == json = JsonCut

\* JSON.parse(json) of the other texts
JsonParse(json) ==
  CASE json = JsonBaseline -> [filters |-> [coherenceBaseline |-> 90]]
    [] json = JsonLowBaseline ->
         [filters |-> [coherenceBaseline |-> 40],
          toggles |-> [encryptPii |-> FALSE]]
    [] json = JsonNoise -> [filters |-> [noiseScrub |-> "extreme"]]
    [] json = JsonToggles ->
         [toggles |-> [fairnessAudit |-> FALSE],
          metadata |-> [description |-> "lab"]]
    [] json = JsonEmpty -> [none |-> TRUE]
    [] json = JsonNull -> NoOverride

\* the Partial<ConfigFilters> a caller passes to updateFilters
FilterUpdates ==
  { <<>>,
    [coherenceBaseline |-> 40],
    [coherenceBaseline |-> 50],
    [coherenceBaseline |-> 100],
    [coherenceBaseline |-> 101],
    [noiseScrub |-> "low"],
    [noiseScrub |-> "extreme"],
    [timezoneParity |-> FALSE],
    [coherenceBaseline |-> 90, noiseScrub |-> "extreme"] }

\* the Partial<ConfigToggles> a caller passes to updateToggles
ToggleUpdates ==
  { [simulateDecoherence |-> TRUE],
    [encryptPii |-> FALSE, fairnessAudit |-> FALSE] }

\* the initialConfig a caller passes to the constructor
InitialConfigs ==
  { NoOverride,
    [filters |-> [coherenceBaseline |-> 70]],
    [filters |-> [coherenceBaseline |-> 20]] }

\* ---------------------------------------------------------------- actions
Init ==
  /\ demands = <<>>
  /\ capacity = 0
  /\ pc = "idle"
  /\ nValid = 0
  /\ allocations = <<>>
  /\ remaining = 0
  /\ iterations = 0
  /\ remaining0 = 0
  /\ lastAgent = 0
  /\ trail = 0
  /\ report = NoReport
  /\ earlier = NoEarlier
  /\ queue = <<>>
  /\ now = 0
  /\ enqueued = 0
  /\ dequeued = 0
  /\ lastDequeued = Undefined
  /\ config = mergeConfig(DEFAULT_CONFIG, NoOverride)
  /\ configHistory = <<HistoryEntry("Initialized", config, now)>>
  /\ lastCall = [op |-> "constructor", arg |-> NoOverride]
  /\ outcome = "returned"
  /\ updates = 0

\* a caller invokes allocateResources(ds, cap)
Call(ds, cap) ==
  /\ pc = "idle"
  /\ demands' = ds
  /\ capacity' = cap
  /\ pc' = "start"
  /\ UNCHANGED <<nValid, allocations, remaining, iterations, remaining0,
                 lastAgent, trail, report, earlier>>
  /\ UNCHANGED <<schedVars, cfgVars>>

\* if (validDemands.length === 0) return createEmptyAllocation(...)
EmptyPath ==
  /\ pc = "start"
  /\ Len(validDemands(demands)) = 0
  /\ trail' = createTrailEntry(trail)
  /\ report' = createEmptyAllocation(demands, capacity, trail')
  /\ pc' = "done"
  /\ UNCHANGED <<demands, capacity, nValid, allocations, remaining,
                 iterations, remaining0, lastAgent, earlier>>
  /\ UNCHANGED <<schedVars, cfgVars>>

ProportionalCarries ==
  /\ pc = "start"
  /\ Len(validDemands(demands)) # 0
  /\ \E va \in {validAllocations(demands, capacity)} :
       /\ nValid' = Len(va)
       /\ allocations' = va \o invalidAllocations(demands)
       /\ remaining' = IF JsGt(remaining, 0)
                       THEN JsSub(capacity + remaining, SumAllocated(va))
                       ELSE JsSub(capacity, SumAllocated(va))
       /\ remaining0' = remaining'
  /\ iterations' = 0
  /\ lastAgent' = 0
  /\ pc' = "loop"
  /\ UNCHANGED <<demands, capacity, trail, report, earlier>>
  /\ UNCHANGED <<schedVars, cfgVars>>
\* the proportional step up to the entry of the while loop
Proportional ==
  /\ pc = "start"
  /\ Len(validDemands(demands)) # 0
  /\ \E va \in {validAllocations(demands, capacity)} :
       /\ nValid' = Len(va)
       /\ allocations' = va \o invalidAllocations(demands)
       /\ remaining' = JsSub(capacity, SumAllocated(va))
       /\ remaining0' = remaining'
  /\ iterations' = 0
  /\ lastAgent' = 0
  /\ pc' = "loop"
  /\ UNCHANGED <<demands, capacity, trail, report, earlier>>
  /\ UNCHANGED <<schedVars, cfgVars>>

\* one iteration of while (remaining > 0)
RedistributeStep ==
  /\ pc = "loop"
  /\ LoopContinues(remaining, allocations, nValid)
  /\ \E agent \in {needyAgents(allocations, nValid)[1]} :
       /\ allocations' = [allocations EXCEPT ![agent] = Served(@)]
       /\ lastAgent' = agent
  /\ remaining' = JsSub(remaining, 1)
  /\ iterations' = iterations + 1
  /\ UNCHANGED <<demands, capacity, pc, nValid, remaining0, trail, report,
                 earlier>>
  /\ UNCHANGED <<schedVars, cfgVars>>

\* the while loop ends: remaining is not positive, or the break
LoopExit ==
  /\ pc = "loop"
  /\ ~LoopContinues(remaining, allocations, nValid)
  /\ pc' = "metrics"
  /\ UNCHANGED <<demands, capacity, nValid, allocations, remaining,
                 iterations, remaining0, lastAgent, trail, report, earlier>>
  /\ UNCHANGED <<schedVars, cfgVars>>

FinishUnrecorded ==
  /\ pc = "metrics"
  /\ report' = NormalReport(demands, capacity, allocations, trail)
  /\ pc' = "done"
  /\ UNCHANGED <<demands, capacity, nValid, allocations, remaining,
                 iterations, remaining0, lastAgent, trail, earlier>>
  /\ UNCHANGED <<schedVars, cfgVars>>
\* metrics, provenance and return
Finish ==
  /\ pc = "metrics"
  /\ trail' = createTrailEntry(trail)
  /\ report' = NormalReport(demands, capacity, allocations, trail')
  /\ pc' = "done"
  /\ UNCHANGED <<demands, capacity, nValid, allocations, remaining,
                 iterations, remaining0, lastAgent, earlier>>
  /\ UNCHANGED <<schedVars, cfgVars>>

\* some caller, some arguments
Invoke ==
  /\ pc = "idle"
  /\ \E ds \in DemandLists, cap \in 0..MaxCapacity : Call(ds, cap)

Next ==
  \/ Invoke
  \/ EmptyPath
  \/ Proportional
  \/ RedistributeStep
  \/ LoopExit
  \/ Finish

Spec == Init /\ [][Next]_vars

\* allocateResources is synchronous code: once called, the proportional
\* step and the loop run on without waiting for anything
FairSpec ==
  Spec /\ WF_vars(Proportional \/ RedistributeStep \/ LoopExit)

\* ------------------------------------------- calls with negative numbers
\* amount: number and capacity: number admit negative values, and
\* allocateResources has no check that turns them away
SignedDemandInfo ==
  [amount : (-1)..MaxAmount, coherence_score : Scores, timezone : {NoTz}]

SignedDemandLists == UNION { [1..k -> SignedDemandInfo] : k \in 0..MaxSigned }

SignedCapacities == (-1)..MaxCapacity

\* some caller, arguments of either sign
InvokeSigned ==
  /\ pc = "idle"
  /\ \E ds \in SignedDemandLists, cap \in SignedCapacities : Call(ds, cap)

NextSigned ==
  \/ InvokeSigned
  \/ EmptyPath
  \/ Proportional
  \/ RedistributeStep
  \/ LoopExit
  \/ Finish

SpecSigned == Init /\ [][NextSigned]_vars

\* ------------------------------------------ calls with longer lists
\* a demand without coherence_score and without timezone
EligibleDemandInfo ==
  [amount : 0..MaxAmount, coherence_score : {NoScore}, timezone : {NoTz}]

EligibleDemandLists ==
  UNION { [1..k -> EligibleDemandInfo] : k \in 0..MaxEligible }

\* some caller, a list of up to MaxEligible such demands
InvokeEligible ==
  /\ pc = "idle"
  /\ \E ds \in EligibleDemandLists, cap \in 0..MaxCapacity : Call(ds, cap)

NextEligible ==
  \/ InvokeEligible
  \/ EmptyPath
  \/ Proportional
  \/ RedistributeStep
  \/ LoopExit
  \/ Finish

SpecEligible == Init /\ [][NextEligible]_vars

\* ------------------------------------------------- one call after another
\* allocateResources is an exported function: a caller may call it again
\* after it returned.  The variables of this model outlive the call that
\* set them, as module-level state would; what a later call finds in them
\* is whatever the previous call left.
RepeatDemandInfo ==
  [amount : {1, MaxAmount}, coherence_score : {NoScore}, timezone : {NoTz}]

RepeatDemandLists ==
  UNION { [1..k -> RepeatDemandInfo] : k \in 0..MaxRepeat }

RepeatCapacities == {1, MaxCapacity}

\* a caller makes one more call
InvokeRepeat ==
  /\ pc = "idle"
  /\ trail < MaxCalls
  /\ \E ds \in RepeatDemandLists, cap \in RepeatCapacities : Call(ds, cap)

\* the call remembered for a later comparison
ThisCall ==
  [set |-> TRUE, demands |-> demands, capacity |-> capacity,
   report |-> report, between |-> FALSE]

\* what is remembered after one more call returned: between tells that a
\* call with other arguments returned after the remembered one
Remembered ==
  IF earlier.set
  THEN { [earlier EXCEPT !.between =
            @ \/ demands # earlier.demands \/ capacity # earlier.capacity] }
  ELSE { earlier, ThisCall }

\* return {...}: the caller has the report and may call again
Return ==
  /\ pc = "done"
  /\ pc' = "idle"
  /\ earlier' \in Remembered
  /\ UNCHANGED <<demands, capacity, nValid, allocations, remaining,
                 iterations, remaining0, lastAgent, trail, report>>
  /\ UNCHANGED <<schedVars, cfgVars>>

NextCalls ==
  \/ InvokeRepeat
  \/ EmptyPath
  \/ Proportional
  \/ RedistributeStep
  \/ LoopExit
  \/ Finish
  \/ Return

SpecCalls == Init /\ [][NextCalls]_vars

\* ----------------------------------- the same call in other timezones
\* eligible demands of two sizes and an ineligible one, each without
\* timezone or in one of two
ZoneDemandInfo ==
  [amount : {1, MaxAmount}, coherence_score : {NoScore},
   timezone : {NoTz, "PST", "JST"}]
  \cup [amount : {MaxAmount}, coherence_score : {63},
        timezone : {NoTz, "PST", "JST"}]

ZoneDemandLists == UNION { [1..k -> ZoneDemandInfo] : k \in 0..MaxZoned }

\* ds and es are the same list but for the timezone fields
SameButZones(ds, es) ==
  /\ Len(ds) = Len(es)
  /\ \A i \in 1..Len(ds) :
       /\ ds[i].amount = es[i].amount
       /\ ds[i].coherence_score = es[i].coherence_score

\* a caller makes a first call, which is remembered, and then one call
\* with the same capacity and the same demands in any timezones
InvokeZoned ==
  /\ pc = "idle"
  /\ IF earlier.set
     THEN /\ trail = 1
          /\ \E ds \in ZoneDemandLists :
               SameButZones(ds, earlier.demands) /\ Call(ds, earlier.capacity)
     ELSE /\ trail = 0
          /\ \E ds \in ZoneDemandLists, cap \in RepeatCapacities :
               Call(ds, cap)

NextZones ==
  \/ InvokeZoned
  \/ EmptyPath
  \/ Proportional
  \/ RedistributeStep
  \/ LoopExit
  \/ Finish
  \/ Return

SpecZones == Init /\ [][NextZones]_vars

\* ------------------------------------ the same call with other scores
\* eligible demands of two sizes, without score or with one of two scores
\* that pass the threshold, and an ineligible one
ScoreDemandInfo ==
  [amount : {1, MaxAmount}, coherence_score : {NoScore, 64, 100},
   timezone : {NoTz}]
  \cup [amount : {MaxAmount}, coherence_score : {63}, timezone : {NoTz}]

ScoreDemandLists == UNION { [1..k -> ScoreDemandInfo] : k \in 0..MaxZoned }

\* ds and es are the same list but for the scores of demands that are
\* eligible in both
SameButScores(ds, es) ==
  /\ Len(ds) = Len(es)
  /\ \A i \in 1..Len(ds) :
       /\ ds[i].amount = es[i].amount
       /\ ds[i].timezone = es[i].timezone
       /\ \/ ds[i].coherence_score = es[i].coherence_score
          \/ IsValid(ds[i]) /\ IsValid(es[i])

\* a caller makes a first call, which is remembered, and then one call
\* with the same capacity and the same demands with any passing scores
InvokeScored ==
  /\ pc = "idle"
  /\ IF earlier.set
     THEN /\ trail = 1
          /\ \E ds \in ScoreDemandLists :
               SameButScores(ds, earlier.demands) /\ Call(ds, earlier.capacity)
     ELSE /\ trail = 0
          /\ \E ds \in ScoreDemandLists, cap \in RepeatCapacities :
               Call(ds, cap)

NextScores ==
  \/ InvokeScored
  \/ EmptyPath
  \/ Proportional
  \/ RedistributeStep
  \/ LoopExit
  \/ Finish
  \/ Return

SpecScores == Init /\ [][NextScores]_vars

\* ------------------------------------------------ a failing audit sink
\* const trail = createTrailEntry(decision) in createEmptyAllocation, the
\* sink failing: the call is not inside a try, so the exception leaves
\* createEmptyAllocation and allocateResources, and nothing is returned
EmptyPathSinkFails ==
  /\ pc = "start"
  /\ Len(validDemands(demands)) = 0
  /\ pc' = "threw"
  /\ UNCHANGED <<demands, capacity, nValid, allocations, remaining,
                 iterations, remaining0, lastAgent, trail, report, earlier>>
  /\ UNCHANGED <<schedVars, cfgVars>>

\* const trail = createTrailEntry(decision) after the metrics, the sink
\* failing: the exception leaves allocateResources before the return
FinishSinkFails ==
  /\ pc = "metrics"
  /\ pc' = "threw"
  /\ UNCHANGED <<demands, capacity, nValid, allocations, remaining,
                 iterations, remaining0, lastAgent, trail, report, earlier>>
  /\ UNCHANGED <<schedVars, cfgVars>>

NextSink ==
  \/ Invoke
  \/ EmptyPath
  \/ EmptyPathSinkFails
  \/ Proportional
  \/ RedistributeStep
  \/ LoopExit
  \/ Finish
  \/ FinishSinkFails

SpecSink == Init /\ [][NextSink]_vars

\* ---------------------------------------------- the calls of the tests
\* a demand as the tests write it: no timezone
Documented(amount, score) ==
  [amount |-> amount, coherence_score |-> score, timezone |-> NoTz]

\* the calls of the allocateResources tests whose demands name no timezone
\* and ask for at most 40 units together
DocumentedCalls ==
  { <<<<Documented(10, 85), Documented(10, 85)>>, 20>>,
    <<<<Documented(10, 90), Documented(10, 60)>>, 20>>,
    <<<<Documented(10, 85), Documented(20, 85)>>, 15>>,
    <<<<Documented(5, 85), Documented(20, 85)>>, 15>>,
    <<<<Documented(10, 85)>>, 10>> }

\* a test calls allocateResources
InvokeDocumented ==
  /\ pc = "idle"
  /\ \E c \in DocumentedCalls : Call(c[1], c[2])

\* calls with larger amounts and the capacity their sum: the four whose
\* first share the doubles compute short (FloatShort), and two others
LargerCalls ==
  { <<<<Documented(15, NoScore), Documented(7, NoScore)>>, 22>>,
    <<<<Documented(13, NoScore), Documented(10, NoScore)>>, 23>>,
    <<<<Documented(15, NoScore), Documented(11, NoScore)>>, 26>>,
    <<<<Documented(31, NoScore), Documented(8, NoScore)>>, 39>>,
    <<<<Documented(14, NoScore), Documented(8, NoScore)>>, 22>>,
    <<<<Documented(11, NoScore), Documented(11, NoScore)>>, 22>> }

\* a caller with larger amounts
InvokeLarger ==
  /\ pc = "idle"
  /\ \E c \in LargerCalls : Call(c[1], c[2])

NextDocumented ==
  \/ Invoke
  \/ InvokeDocumented
  \/ InvokeLarger
  \/ EmptyPath
  \/ Proportional
  \/ RedistributeStep
  \/ LoopExit
  \/ Finish

SpecDocumented == Init /\ [][NextDocumented]_vars

\* ------------------------------------------------- ResourceScheduler
\* Priorities are counted in units of 0.0001: fairnessScore in thousandths
\* times priorityWeight in tenths.  For the scores and weights below the
\* double products compare, and differ by more than 0.01, exactly as these
\* integers do.
FairnessScores == {300, 308, 316}
PriorityWeights == {8, 15}

\* 0.01
Tolerance == 100

\* const priority = allocation.fairnessScore * priorityWeight
PriorityOf(fairnessScore, priorityWeight) == fairnessScore * priorityWeight

\* the comparator handed to this.queue.sort
Compare(a, b) ==
  IF Abs(a.priority - b.priority) > Tolerance
  THEN b.priority - a.priority
  ELSE a.submittedAt - b.submittedAt

\* Array.prototype.sort with this comparator.  The comparator is not
\* consistent (priorities 0.2400, 0.2464, 0.2528: the first and the last
\* differ by more than 0.01, each is within 0.01 of the middle one), and
\* for such a comparator the order sort leaves is implementation-defined:
\* it is the order the engine's algorithm leaves, which is followed here
\* step by step.
Reverse(a) == [i \in 1..Len(a) |-> a[Len(a) + 1 - i]]

\* V8, arrays shorter than 64: the leading run is counted (and reversed
\* when descending), the rest is put in place by binary insertion.
\* idx is the position of the element compared with its predecessor.
RECURSIVE RunLengthFrom(_, _, _)
RunLengthFrom(a, idx, descending) ==
  IF idx > Len(a) THEN Len(a)
  ELSE LET order == Compare(a[idx], a[idx - 1])
       IN IF (descending /\ order >= 0) \/ (~descending /\ order < 0)
          THEN idx - 1
          ELSE RunLengthFrom(a, idx + 1, descending)

CountAndMakeRun(a) ==
  LET descending == Compare(a[2], a[1]) < 0
      runLength == RunLengthFrom(a, 3, descending)
  IN [runLength |-> runLength,
      array |-> IF descending
                THEN Reverse(SubSeq(a, 1, runLength))
                       \o SubSeq(a, runLength + 1, Len(a))
                ELSE a]

\* left and right count elements from 0, as the engine does
RECURSIVE BinarySearch(_, _, _, _)
BinarySearch(a, pivot, left, right) ==
  IF left >= right THEN left
  ELSE LET mid == left + ((right - left) \div 2)
       IN IF Compare(pivot, a[mid + 1]) < 0
          THEN BinarySearch(a, pivot, left, mid)
          ELSE BinarySearch(a, pivot, mid + 1, right)

RECURSIVE BinaryInsertionSort(_, _)
BinaryInsertionSort(a, start) ==
  IF start >= Len(a) THEN a
  ELSE LET pivot == a[start + 1]
           left == BinarySearch(a, pivot, 0, start)
       IN BinaryInsertionSort(
            SubSeq(a, 1, left) \o <<pivot>> \o SubSeq(a, left + 1, start)
              \o SubSeq(a, start + 2, Len(a)),
            start + 1)

TimSort(a) ==
  IF Len(a) < 2 THEN a
  ELSE LET run == CountAndMakeRun(a)
       IN BinaryInsertionSort(run.array, run.runLength)

\* time passes between two calls
Tick ==
  /\ now < MaxClock
  /\ now' = now + 1
  /\ UNCHANGED <<queue, enqueued, dequeued, lastDequeued>>
  /\ UNCHANGED <<allocVars, cfgVars>>

\* enqueue(allocation, priorityWeight); the allocation's id is the number
\* of the call
Enqueue(fairnessScore, priorityWeight) ==
  /\ enqueued < MaxEnqueues
  /\ enqueued' = enqueued + 1
  /\ queue' =
       TimSort(Append(queue,
                      [id |-> enqueued',
                       priority |-> PriorityOf(fairnessScore, priorityWeight),
                       submittedAt |-> now]))
  /\ UNCHANGED <<now, dequeued, lastDequeued>>
  /\ UNCHANGED <<allocVars, cfgVars>>

\* dequeue(): this.queue.shift(), item?.allocation
Dequeue ==
  /\ IF queue = <<>>
     THEN /\ lastDequeued' = Undefined
          /\ UNCHANGED <<queue, dequeued>>
     ELSE /\ lastDequeued' = Head(queue).id
          /\ queue' = Tail(queue)
          /\ dequeued' = dequeued + 1
  /\ UNCHANGED <<now, enqueued>>
  /\ UNCHANGED <<allocVars, cfgVars>>

\* peek(): this.queue[0]?.allocation
peek == IF queue = <<>> THEN Undefined ELSE queue[1].id

\* size(): this.queue.length
size == Len(queue)

\* some caller, some allocation and weight
EnqueueAny ==
  \E fairnessScore \in FairnessScores, priorityWeight \in PriorityWeights :
    Enqueue(fairnessScore, priorityWeight)

NextScheduler ==
  \/ Tick
  \/ EnqueueAny
  \/ Dequeue

SpecScheduler == Init /\ [][NextScheduler]_vars

\* ---------------------------------------------- ConfigurationManager
\* new ConfigurationManager(initialConfig): the constructor merges and
\* logs, and does not validate
NewManager(initialConfig) ==
  /\ updates < MaxUpdates
  /\ updates' = updates + 1
  /\ config' = mergeConfig(DEFAULT_CONFIG, initialConfig)
  /\ configHistory' = <<HistoryEntry("Initialized", config', now)>>
  /\ lastCall' = [op |-> "constructor", arg |-> initialConfig]
  /\ outcome' = "returned"
  /\ UNCHANGED <<allocVars, schedVars>>

\* updateFilters with the assignment moved above validateConfig
UpdateFiltersAssignsFirst(filters) ==
  /\ updates < MaxUpdates
  /\ updates' = updates + 1
  /\ lastCall' = [op |-> "updateFilters", arg |-> filters]
  /\ config' = [config EXCEPT !.filters = Spread(config.filters, filters)]
  /\ IF validateConfigThrows(config')
     THEN /\ outcome' = "threw"
          /\ UNCHANGED configHistory
     ELSE /\ outcome' = "returned"
          /\ configHistory' =
               Append(configHistory,
                      HistoryEntry("Manual update", config', now))
  /\ UNCHANGED <<allocVars, schedVars>>

\* updateFilters(filters)
UpdateFilters(filters) ==
  /\ updates < MaxUpdates
  /\ updates' = updates + 1
  /\ lastCall' = [op |-> "updateFilters", arg |-> filters]
  /\ \E newConfig \in
         {[config EXCEPT !.filters = Spread(config.filters, filters)]} :
       IF validateConfigThrows(newConfig)
       THEN /\ outcome' = "threw"
            /\ UNCHANGED <<config, configHistory>>
       ELSE /\ outcome' = "returned"
            /\ config' = newConfig
            /\ configHistory' =
                 Append(configHistory,
                        HistoryEntry("Manual update", config', now))
  /\ UNCHANGED <<allocVars, schedVars>>

\* updateToggles(toggles): no validation
UpdateToggles(toggles) ==
  /\ updates < MaxUpdates
  /\ updates' = updates + 1
  /\ lastCall' = [op |-> "updateToggles", arg |-> toggles]
  /\ outcome' = "returned"
  /\ config' = [config EXCEPT !.toggles = Spread(config.toggles, toggles)]
  /\ configHistory' =
       Append(configHistory, HistoryEntry("Manual update", config', now))
  /\ UNCHANGED <<allocVars, schedVars>>

\* setConfigFromJSON(json): a failure of JSON.parse or of validateConfig
\* is caught and thrown again as "Invalid JSON configuration"
SetConfigFromJSON(json) ==
  /\ updates < MaxUpdates
  /\ updates' = updates + 1
  /\ lastCall' = [op |-> "setConfigFromJSON", arg |-> json]
  /\ IF JsonParseThrows(json)
     THEN /\ outcome' = "threw"
          /\ UNCHANGED <<config, configHistory>>
     ELSE \E newConfig \in {mergeConfig(config, JsonParse(json))} :
            IF validateConfigThrows(newConfig)
            THEN /\ outcome' = "threw"
                 /\ UNCHANGED <<config, configHistory>>
            ELSE /\ outcome' = "returned"
                 /\ config' = newConfig
                 /\ configHistory' =
                      Append(configHistory,
                             HistoryEntry("JSON import", config', now))
  /\ UNCHANGED <<allocVars, schedVars>>

\* resetToDefault()
ResetToDefault ==
  /\ updates < MaxUpdates
  /\ updates' = updates + 1
  /\ lastCall' = [op |-> "resetToDefault", arg |-> NoOverride]
  /\ outcome' = "returned"
  /\ config' = DEFAULT_CONFIG
  /\ configHistory' =
       Append(configHistory, HistoryEntry("Reset to defaults", config', now))
  /\ UNCHANGED <<allocVars, schedVars>>

\* some caller, some argument
NewManagerAny == \E initialConfig \in InitialConfigs : NewManager(initialConfig)

UpdateFiltersAny == \E filters \in FilterUpdates : UpdateFilters(filters)

UpdateTogglesAny == \E toggles \in ToggleUpdates : UpdateToggles(toggles)

SetConfigFromJSONAny == \E json \in JsonTexts : SetConfigFromJSON(json)

NextConfig ==
  \/ NewManagerAny
  \/ UpdateFiltersAny
  \/ UpdateTogglesAny
  \/ SetConfigFromJSONAny
  \/ ResetToDefault

SpecConfig == Init /\ [][NextConfig]_vars

\* ============================================================ properties
TypeOK ==
  /\ pc \in {"idle", "start", "loop", "metrics", "done", "threw"}
  /\ capacity \in (-1)..MaxCapacity
                   \cup { c[2] : c \in DocumentedCalls \cup LargerCalls }
  /\ nValid \in 0..(MaxDemands + MaxZoned + MaxEligible)
  /\ pc \in {"loop", "metrics"} => nValid <= Len(demands)
  /\ trail \in 0..MaxCalls
  /\ report = NoReport \/ report.returned
  /\ earlier = NoEarlier \/ earlier.set

\* the effective quality score of input demand i is below 64
Below64(i) ==
  demands[i].coherence_score # NoScore /\ demands[i].coherence_score < 64

\* the effective quality score of input demand i is at least 64: the score
\* is absent (80 stands in) or present and >= 64
AtLeast64(i) ==
  demands[i].coherence_score = NoScore \/ demands[i].coherence_score >= 64

Returned == pc = "done" /\ report.returned

\* the allocated values of a list of allocations add up to v
RECURSIVE PlainSum(_)
PlainSum(as) ==
  IF as = <<>> THEN 0 ELSE Head(as).allocated + PlainSum(Tail(as))

\* C1: capacity invariant. In the returned report total_allocated is the
\* sum of allocated and does not exceed capacity (so efficiency <= 100),
\* also when more eligible non-zero demands than capacity units exist.
\* (Stated for reports whose total is a number.)
C1_CapacityInvariant ==
  (Returned /\ report.total_allocated # NaN) =>
    /\ report.total_allocated = PlainSum(report.allocations)
    /\ report.total_allocated <= capacity
    /\ RLeq(report.efficiency, Rat(100, 1))

\* C2: no over-allocation. Every allocation of the returned report has
\* allocated <= requested. (Stated for allocations that are numbers.)
C2_NoOverAllocation ==
  Returned =>
    \A k \in 1..Len(report.allocations) :
      report.allocations[k].allocated # NaN =>
        report.allocations[k].allocated <= report.allocations[k].requested

\* C3: eligibility exclusion. A demand whose effective score is below 64
\* holds allocated = 0 after the proportional step, after every iteration
\* of the redistribution loop and in the returned report, where it has an
\* entry.
C3_EligibilityExclusion ==
  /\ \A k \in 1..Len(allocations) :
       Below64(allocations[k].agent_id) => allocations[k].allocated = 0
  /\ Returned =>
       \A i \in 1..Len(demands) :
         Below64(i) =>
           \E k \in 1..Len(report.allocations) :
             /\ report.allocations[k].agent_id = i
             /\ \A j \in 1..Len(report.allocations) :
                  report.allocations[j].agent_id = i =>
                    report.allocations[j].allocated = 0

\* an ineligible demand sat next to an eligible one through a
\* redistribution that handed out a unit
C3_Witness ==
  /\ Returned
  /\ iterations >= 1
  /\ capacity > 0
  /\ \E i \in 1..Len(demands) : Below64(i) /\ demands[i].amount > 0

\* C4: eligibility rule. The demands that take part in the proportional
\* step and the redistribution (the first nValid allocations) are exactly
\* those whose effective score is >= 64 (coherence_score, or 80 when
\* absent), in input order; the others are exactly the rest; every demand
\* is in exactly one class. The no-eligible path is taken exactly when no
\* demand has an effective score >= 64.
C4_EligibilityRule ==
  /\ pc = "loop" =>
       /\ Len(allocations) = Len(demands)
       /\ { allocations[k].agent_id : k \in 1..nValid } =
            { i \in 1..Len(demands) : AtLeast64(i) }
       /\ { allocations[k].agent_id : k \in (nValid + 1)..Len(allocations) } =
            { i \in 1..Len(demands) : ~AtLeast64(i) }
       /\ \A k \in 1..Len(allocations), j \in 1..Len(allocations) :
            k # j => allocations[k].agent_id # allocations[j].agent_id
       /\ nValid > 0
  /\ (pc = "done" /\ nValid = 0) =>
       \A i \in 1..Len(demands) : ~AtLeast64(i)

\* a demand without score and a demand with score 64 are both in, a
\* demand with score 63 is out
C4_Witness ==
  /\ pc = "loop"
  /\ Len(demands) = 3
  /\ demands[1].coherence_score = 63
  /\ demands[2].coherence_score = 64
  /\ demands[3].coherence_score = NoScore
  /\ nValid = 2
  /\ allocations[1].agent_id = 2
  /\ allocations[2].agent_id = 3
  /\ allocations[3].agent_id = 1

\* C5: max-min selection order. Every iteration of the redistribution loop
\* gives its unit to an eligible allocation that has allocated < requested
\* and whose fill_rate is minimal among all such allocations before the
\* iteration; among those of minimal fill_rate it is the earliest in input
\* order.
C5_Selection ==
  (pc = "loop" /\ pc' = "loop" /\ allocations' # allocations) =>
    \E k \in 1..nValid :
      /\ allocations'[k].allocated = allocations[k].allocated + 1
      /\ allocations[k].allocated < allocations[k].requested
      /\ \A j \in 1..nValid :
           allocations[j].allocated < allocations[j].requested =>
             /\ allocations[k].fill_rate.n * allocations[j].fill_rate.d
                  <= allocations[j].fill_rate.n * allocations[k].fill_rate.d
             /\ (allocations[k].fill_rate.n * allocations[j].fill_rate.d
                  = allocations[j].fill_rate.n * allocations[k].fill_rate.d)
                  => allocations[k].agent_id <= allocations[j].agent_id

C5_MaxMinSelectionOrder == [][C5_Selection]_vars

\* the unit went to the second eligible demand, whose fill rate was
\* strictly lower than the first's, which was needy too
C5_Witness ==
  /\ pc = "loop"
  /\ iterations = 2
  /\ lastAgent = 2
  /\ nValid = 3
  /\ allocations[1].allocated < allocations[1].requested

\* C6: termination of redistribution. The loop makes at most (capacity -
\* sum of raw allocations) iterations, none when that difference is not
\* positive, and then ends: while the loop runs, remaining is its initial
\* value less the iterations made, and the loop is never stuck (it can
\* make another iteration or leave). Each iteration hands out exactly one
\* unit and lowers remaining by exactly one.
C6_Bound ==
  /\ iterations >= 0
  /\ iterations > 0 => (remaining0 # NaN /\ iterations <= remaining0)
  /\ (pc = "loop" /\ remaining0 # NaN) => remaining = remaining0 - iterations
  /\ pc = "loop" => ENABLED (RedistributeStep \/ LoopExit)
  /\ (pc = "loop" /\ remaining0 # NaN /\ iterations >= remaining0) =>
       ~ENABLED RedistributeStep

C6_Step ==
  (pc = "loop" /\ pc' = "loop" /\ iterations' # iterations) =>
    /\ iterations' = iterations + 1
    /\ remaining' = remaining - 1
    /\ PlainSum(allocations') = PlainSum(allocations) + 1

C6_Termination == []C6_Bound /\ [][C6_Step]_vars

\* once in the loop, the call leaves it
C6_LoopEnds == (pc = "loop") ~> (pc = "metrics")

\* a call returned after its loop used up a positive remaining capacity
C6_Witness ==
  /\ Returned
  /\ iterations = 2
  /\ iterations = remaining0

\* C7: work conservation. At return, if an eligible demand still has
\* allocated < requested then the sum of allocated is >= capacity.
C7_WorkConservation ==
  Returned =>
    ((\E k \in 1..Len(report.allocations) :
        /\ AtLeast64(report.allocations[k].agent_id)
        /\ JsLt(report.allocations[k].allocated,
                report.allocations[k].requested))
      => /\ report.total_allocated # NaN
         /\ PlainSum(report.allocations) >= capacity)

\* the loop ran out of capacity while an eligible demand was still unfilled
C7_Witness ==
  /\ Returned
  /\ iterations >= 1
  /\ PlainSum(report.allocations) = capacity
  /\ \E k \in 1..Len(report.allocations) :
       /\ AtLeast64(report.allocations[k].agent_id)
       /\ report.allocations[k].allocated < report.allocations[k].requested

\* every demand is eligible with a positive amount and capacity is the sum
\* of the amounts
ExactFitInput ==
  /\ Len(demands) > 0
  /\ \A i \in 1..Len(demands) : AtLeast64(i) /\ demands[i].amount > 0
  /\ capacity = SumAmount(demands)

\* C8: exact fit. With every demand eligible, positive amounts and
\* capacity equal to their sum, every demand ends with allocated =
\* requested, total_allocated = capacity, efficiency = 100 and
\* gini_coefficient = 0, whatever the timezones.
C8_ExactFit ==
  (Returned /\ ExactFitInput) =>
    /\ Len(report.allocations) = Len(demands)
    /\ \A k \in 1..Len(report.allocations) :
         report.allocations[k].allocated = report.allocations[k].requested
    /\ report.total_allocated = capacity
    /\ report.efficiency = [n |-> 100, d |-> 1]
    /\ report.gini_coefficient = [n |-> 0, d |-> 1]

\* an exact fit of two different amounts in two different timezones
C8_Witness ==
  /\ Returned
  /\ ExactFitInput
  /\ Len(demands) = 2
  /\ demands[1].amount # demands[2].amount
  /\ demands[1].timezone # demands[2].timezone

\* C9: no eligible demand. When no demand is eligible (the empty list
\* included) the call returns a report with one allocation per input
\* demand, in input order, each with allocated = 0, and total_allocated =
\* 0, efficiency = 0, gini_coefficient = 0, timezone_parity = 100; and the
\* call does return, without entering the loop.
C9_NoEligibleDemand ==
  (\A i \in 1..Len(demands) : ~AtLeast64(i)) =>
    /\ pc # "loop"
    /\ pc = "done" =>
         /\ report.returned
         /\ Len(report.allocations) = Len(demands)
         /\ \A k \in 1..Len(report.allocations) :
              /\ report.allocations[k].agent_id = k
              /\ report.allocations[k].allocated = 0
              /\ report.allocations[k].requested = demands[k].amount
         /\ report.total_allocated = 0
         /\ report.efficiency = [n |-> 0, d |-> 1]
         /\ report.gini_coefficient = [n |-> 0, d |-> 1]
         /\ report.timezone_parity = [n |-> 100, d |-> 1]

\* two ineligible demands with positive amounts and capacity to give
C9_Witness ==
  /\ Returned
  /\ Len(demands) = 2
  /\ \A i \in 1..Len(demands) : Below64(i) /\ demands[i].amount > 0
  /\ capacity > 0

\* C10: zero total demand. With at least one eligible demand and every
\* eligible demand of amount 0, every allocation of the report has
\* allocated = 0, every eligible one fill_rate = 1.0, total_allocated = 0
\* and efficiency is a number.
C10_ZeroTotalDemand ==
  (/\ Returned
   /\ \E i \in 1..Len(demands) : AtLeast64(i)
   /\ \A i \in 1..Len(demands) : AtLeast64(i) => demands[i].amount = 0) =>
    /\ \A k \in 1..Len(report.allocations) :
         /\ report.allocations[k].allocated = 0
         /\ AtLeast64(report.allocations[k].agent_id) =>
              report.allocations[k].fill_rate = [n |-> 1, d |-> 1]
    /\ report.total_allocated = 0
    /\ report.efficiency # RNaN

\* C11: zero capacity. With capacity = 0 and at least one eligible demand
\* the call returns a report in which every allocated is 0 (no minimum
\* bump), total_allocated = 0 and efficiency = 0; and when every demand has
\* amount > 0, gini_coefficient = 0.
C11_ZeroCapacity ==
  (/\ pc = "done"
   /\ capacity = 0
   /\ \E i \in 1..Len(demands) : AtLeast64(i)) =>
    /\ report.returned
    /\ \A k \in 1..Len(report.allocations) :
         report.allocations[k].allocated = 0
    /\ report.total_allocated = 0
    /\ report.efficiency = [n |-> 0, d |-> 1]
    /\ (\A i \in 1..Len(demands) : demands[i].amount > 0) =>
         report.gini_coefficient = [n |-> 0, d |-> 1]

\* C12: input validation. A call with a negative capacity or a negative
\* amount does not come back with a report, and no returned report holds
\* a negative allocated or a negative total_allocated.
C12_InputValidation ==
  Returned =>
    /\ capacity >= 0
    /\ \A i \in 1..Len(demands) : demands[i].amount >= 0
    /\ \A k \in 1..Len(report.allocations) :
         report.allocations[k].allocated # NaN =>
           report.allocations[k].allocated >= 0
    /\ report.total_allocated # NaN => report.total_allocated >= 0

\* C13: audit failure isolation. When the audit sink fails, on the normal
\* path or on the no-eligible-demand path, the call still ends with a
\* returned report, and its allocations, totals, efficiency and fairness
\* metrics are those of the call with a working sink.
C13_AuditFailureIsolation ==
  pc \in {"done", "threw"} =>
    /\ report.returned
    /\ \E id \in {report.trail_id} :
         report = IF Len(validDemands(demands)) = 0
                  THEN createEmptyAllocation(demands, capacity, id)
                  ELSE NormalReport(demands, capacity, allocations, id)

\* C14: Gini bounds. In every returned report gini_coefficient lies in
\* [0, 1], and it is exactly 0 whenever all fill rates of the report are
\* equal (all equal to 0 included).
C14_GiniBounds ==
  Returned =>
    /\ RLeq(RZero, report.gini_coefficient)
    /\ RLeq(report.gini_coefficient, ROne)
    /\ (\A j, k \in 1..Len(report.allocations) :
          report.allocations[j].fill_rate = report.allocations[k].fill_rate)
         => report.gini_coefficient = [n |-> 0, d |-> 1]

\* the fields of a report other than the provenance
Results(r) == [r EXCEPT !.trail_id = 0, !.atom_tag = <<>>]

\* the call that just returned has the arguments of the remembered call
SameArguments ==
  /\ Returned
  /\ earlier.set
  /\ earlier.demands = demands
  /\ earlier.capacity = capacity

\* C15: determinism and statelessness. A call with the demands and the
\* capacity of an earlier call returns the allocations, totals, efficiency
\* and fairness metrics the earlier call returned, whatever calls returned
\* before the earlier call or between the two and whatever they left
\* behind.
C15_Stateless ==
  SameArguments => Results(report) = Results(earlier.report)

\* the third call repeats the first after a call with other arguments, and
\* its loop handed out a unit
C15_Witness ==
  /\ SameArguments
  /\ earlier.between
  /\ earlier.report.trail_id = 1
  /\ report.trail_id = 3
  /\ iterations >= 1

\* the call that just returned has the capacity and, but for the
\* timezones, the demands of the remembered call
ZoneVariant ==
  /\ Returned
  /\ earlier.set
  /\ earlier.capacity = capacity
  /\ SameButZones(demands, earlier.demands)

\* C16: no timezone influence on amounts. Two calls whose demands differ
\* only in their timezone values (present, absent or different) return
\* the same allocations (allocated and fill_rate of every agent), the same
\* totals and efficiency and the same fill-rate metrics; nothing but
\* timezone_parity differs.
C16_NoTimezoneInfluence ==
  ZoneVariant =>
    [Results(report) EXCEPT !.timezone_parity = RZero] =
      [Results(earlier.report) EXCEPT !.timezone_parity = RZero]

\* a call whose two demands were in one timezone is repeated with the
\* first demand without timezone and the second in another timezone; the
\* loop handed out a unit and the parity came out different
C16_Witness ==
  /\ ZoneVariant
  /\ Len(demands) = 2
  /\ earlier.demands[1].timezone = "PST"
  /\ earlier.demands[2].timezone = "PST"
  /\ demands[1].timezone = NoTz
  /\ demands[2].timezone = "JST"
  /\ iterations >= 1
  /\ report.timezone_parity # earlier.report.timezone_parity

\* C17: report totals. In every returned report total_allocated is the
\* sum of allocated over all allocations (not a number when a term is not
\* a number), total_requested is the sum of amount over all input demands,
\* eligible or not, and efficiency is total_allocated / capacity * 100
\* when capacity > 0 and 0 when capacity is 0.
C17_ReportTotals ==
  Returned =>
    /\ IF \E k \in 1..Len(report.allocations) :
            report.allocations[k].allocated = NaN
       THEN report.total_allocated = NaN
       ELSE report.total_allocated = PlainSum(report.allocations)
    /\ report.total_requested = SumAmount(demands)
    /\ IF capacity = 0 THEN report.efficiency = [n |-> 0, d |-> 1]
       ELSE IF report.total_allocated = NaN THEN report.efficiency = RNaN
       ELSE report.efficiency.n * capacity =
              report.total_allocated * 100 * report.efficiency.d

\* an eligible and an ineligible demand, both asking for something, and a
\* loop that handed out a unit: the totals differ from each other
C17_Witness ==
  /\ Returned
  /\ iterations >= 1
  /\ \E i \in 1..Len(demands) : Below64(i) /\ demands[i].amount > 0
  /\ report.total_allocated > 0
  /\ report.total_allocated # report.total_requested
  /\ report.efficiency.n > 0

\* fill_rate is allocated / requested when requested > 0 and 1.0 when
\* requested = 0
FillRateConsistent(a) ==
  IF a.requested > 0
  THEN a.fill_rate.n * a.requested = a.allocated * a.fill_rate.d
  ELSE a.fill_rate = [n |-> 1, d |-> 1]

\* C18: fill-rate consistency. Every allocation, of an eligible or an
\* ineligible demand, has fill_rate = allocated / requested when requested
\* > 0 and fill_rate = 1.0 when requested = 0: after the proportional
\* step, after each unit the redistribution loop hands out, and in every
\* returned report, the report of the no-eligible-demand path included.
C18_FillRateConsistency ==
  /\ pc \in {"loop", "metrics"} =>
       \A k \in 1..Len(allocations) : FillRateConsistent(allocations[k])
  /\ Returned =>
       \A k \in 1..Len(report.allocations) :
         FillRateConsistent(report.allocations[k])

\* C19: the fill-rate reductions cover everyone. In a returned report
\* with at least one allocation, min_fill_rate, max_fill_rate and
\* avg_fill_rate are the least, the greatest and the arithmetic mean of
\* fill_rate over all allocations, those of ineligible demands included,
\* each of which has fill_rate 0; so a report with an ineligible demand
\* has min_fill_rate = 0.
C19_ReductionsCoverEveryone ==
  (Returned /\ Len(report.allocations) > 0) =>
    /\ \E k \in 1..Len(report.allocations) :
         report.allocations[k].fill_rate = report.min_fill_rate
    /\ \E k \in 1..Len(report.allocations) :
         report.allocations[k].fill_rate = report.max_fill_rate
    /\ \A k \in 1..Len(report.allocations) :
         /\ RLeq(report.min_fill_rate, report.allocations[k].fill_rate)
         /\ RLeq(report.allocations[k].fill_rate, report.max_fill_rate)
         /\ Below64(report.allocations[k].agent_id) =>
              report.allocations[k].fill_rate = [n |-> 0, d |-> 1]
    /\ RMul(report.avg_fill_rate, Rat(Len(report.allocations), 1)) =
         RSum([k \in 1..Len(report.allocations) |->
                 report.allocations[k].fill_rate])
    /\ Len(report.allocations) = Len(demands)
    /\ (\E i \in 1..Len(demands) : Below64(i)) =>
         report.min_fill_rate = [n |-> 0, d |-> 1]

\* two eligible demands that ended with different positive fill rates
\* after the loop ran, beside an ineligible demand
C19_Witness ==
  /\ Returned
  /\ iterations >= 1
  /\ \E i \in 1..Len(demands) : Below64(i) /\ demands[i].amount > 0
  /\ \E j, k \in 1..Len(report.allocations) :
       /\ RLt(RZero, report.allocations[j].fill_rate)
       /\ RLt(report.allocations[j].fill_rate,
              report.allocations[k].fill_rate)
  /\ RLt(report.min_fill_rate, report.avg_fill_rate)
  /\ RLt(report.avg_fill_rate, report.max_fill_rate)

\* the input demand behind each allocation of a report: the eligible
\* demands in input order, then the ineligible ones
AllDemands(ds) == validDemands(ds) \o invalidDemands(ds)

\* C20: parity formula and range. timezone_parity is max(0, 100 - 100 *
\* variance of the mean fill rates of the timezone groups of the demands)
\* and lies in [0, 100]; it is exactly 100 when the demands fall into
\* zero or one group and whenever all group means are equal.
C20_ParityFormula ==
  Returned =>
    /\ report.timezone_parity =
         timezoneParity(demands, AllDemands(demands), report.allocations)
    /\ RLeq(RZero, report.timezone_parity)
    /\ RLeq(report.timezone_parity, Rat(100, 1))
    /\ Cardinality(TzKeys(demands, AllDemands(demands))) <= 1 =>
         report.timezone_parity = [n |-> 100, d |-> 1]
    /\ (\A y, z \in TzKeys(demands, AllDemands(demands)) :
          TzMean(demands, AllDemands(demands), report.allocations, y) =
            TzMean(demands, AllDemands(demands), report.allocations, z))
         => report.timezone_parity = [n |-> 100, d |-> 1]

\* C21: max-min favours the smaller demand. For any two eligible demands
\* of one call with positive amounts, one asking for less than the other,
\* and a capacity below the total demand, the returned fill_rate of the
\* smaller demand is at least that of the larger one.
C21_MaxMinFavoursSmaller ==
  (Returned /\ capacity < SumAmount(demands)) =>
    \A j, k \in 1..Len(report.allocations) :
      (/\ AtLeast64(report.allocations[j].agent_id)
       /\ AtLeast64(report.allocations[k].agent_id)
       /\ report.allocations[j].requested > 0
       /\ report.allocations[j].requested < report.allocations[k].requested)
      => RLeq(report.allocations[k].fill_rate, report.allocations[j].fill_rate)

\* C22: token allocation. When capacity >= 1, every eligible demand with
\* amount > 0 has allocated >= 1 in the returned report, however small its
\* share of the total demand and however many other eligible demands there
\* are.
C22_TokenAllocation ==
  (Returned /\ capacity >= 1) =>
    \A k \in 1..Len(report.allocations) :
      (/\ AtLeast64(report.allocations[k].agent_id)
       /\ demands[report.allocations[k].agent_id].amount > 0)
      => /\ report.allocations[k].allocated # NaN
         /\ report.allocations[k].allocated >= 1

\* three eligible demands share a capacity of 1; the exact share of the
\* first is below a third of a unit
C22_Witness ==
  /\ Returned
  /\ capacity = 1
  /\ Len(demands) = 3
  /\ \A i \in 1..Len(demands) : AtLeast64(i)
  /\ demands[1].amount = 1
  /\ demands[2].amount = MaxAmount
  /\ demands[3].amount = MaxAmount
  /\ report.allocations[1].allocated = 1

\* C23: the scheduler serves by priority. What peek shows and dequeue
\* returns next is a queued allocation such that no other queued
\* allocation has a priority more than 0.01 above its own, and that is the
\* earliest enqueued among the queued allocations whose priorities are
\* within 0.01 of its own; dequeue on an empty queue returns undefined; and
\* size() is the number of enqueues less the successful dequeues.
C23_ServesByPriority ==
  /\ size = enqueued - dequeued
  /\ queue = <<>> => peek = Undefined
  /\ queue # <<>> =>
       /\ peek = queue[1].id
       /\ \A k \in 1..Len(queue) :
            /\ queue[k].priority - queue[1].priority <= Tolerance
            /\ Abs(queue[k].priority - queue[1].priority) <= Tolerance
                 => queue[1].id <= queue[k].id

\* the sum of the amounts of the eligible input demands
RECURSIVE EligibleAmountTo(_)
EligibleAmountTo(i) ==
  IF i = 0 THEN 0
  ELSE EligibleAmountTo(i - 1) + (IF AtLeast64(i) THEN demands[i].amount ELSE 0)

\* floor(amount / totalDemand * capacity), raised to min(1, capacity) when
\* it is 0 for an amount > 0 and capacity > 0
ProportionalShare(amount) ==
  LET floored == (amount * capacity) \div EligibleAmountTo(Len(demands))
  IN IF floored = 0 /\ amount > 0 /\ capacity > 0
     THEN (IF capacity < 1 THEN capacity ELSE 1)
     ELSE floored

RECURSIVE ProportionalShareTo(_)
ProportionalShareTo(k) ==
  IF k = 0 THEN 0
  ELSE ProportionalShareTo(k - 1) + ProportionalShare(allocations[k].requested)

\* C24: proportional step. When the redistribution loop starts, each
\* eligible demand holds floor(amount / totalDemand * capacity), totalDemand
\* the sum of the eligible amounts, a 0 for an amount > 0 raised to min(1,
\* capacity) when capacity > 0. The raise comes before the redistribution
\* and never after: from then on the eligible demands hold these shares
\* plus the units the loop handed out, and the report returns them so.
\* Amounts 5 and 20 with capacity 15 give 3 and 12 and leave nothing to
\* redistribute. (Stated for a total demand above 0.)
C24_ProportionalStep ==
  /\ (pc = "loop" /\ iterations = 0 /\ EligibleAmountTo(Len(demands)) > 0) =>
       \A k \in 1..nValid :
         allocations[k].allocated =
           ProportionalShare(demands[allocations[k].agent_id].amount)
  /\ (pc \in {"loop", "metrics"} /\ EligibleAmountTo(Len(demands)) > 0) =>
       SumAllocatedTo(allocations, nValid) =
         ProportionalShareTo(nValid) + iterations
  /\ (Returned /\ nValid > 0) => report.allocations = allocations
  /\ (/\ pc \in {"loop", "metrics", "done"}
      /\ demands = <<Documented(5, 85), Documented(20, 85)>>
      /\ capacity = 15) =>
       /\ allocations[1].allocated = 3
       /\ allocations[2].allocated = 12
       /\ remaining = 0
       /\ iterations = 0

\* C25: frame of a redistribution step. Each iteration of the loop changes
\* exactly one allocation, an eligible one: its allocated grows by exactly
\* 1 and its fill_rate becomes allocated / requested. Every other
\* allocation, every requested, every agent_id and every allocation of an
\* ineligible demand stay as they were, so no allocated decreases during
\* the redistribution.
C25_Step ==
  (pc = "loop" /\ pc' = "loop" /\ iterations' # iterations) =>
    /\ Len(allocations') = Len(allocations)
    /\ \E k \in 1..nValid :
         /\ AtLeast64(allocations[k].agent_id)
         /\ allocations'[k].allocated = allocations[k].allocated + 1
         /\ allocations'[k].fill_rate.n * allocations[k].requested =
              allocations'[k].allocated * allocations'[k].fill_rate.d
         /\ \A j \in 1..Len(allocations) :
              j # k => allocations'[j] = allocations[j]
    /\ \A j \in 1..Len(allocations) :
         /\ allocations'[j].requested = allocations[j].requested
         /\ allocations'[j].agent_id = allocations[j].agent_id
         /\ allocations'[j].allocated >= allocations[j].allocated
         /\ Below64(allocations[j].agent_id) => allocations'[j] = allocations[j]
    /\ nValid' = nValid

C25_RedistributionFrame == [][C25_Step]_vars

\* the loop has served the second of two eligible demands, next to an
\* ineligible one that asks for something
C25_Witness ==
  /\ pc = "loop"
  /\ iterations >= 1
  /\ lastAgent = 2
  /\ nValid = 2
  /\ Len(allocations) = 3
  /\ allocations[3].requested > 0
  /\ allocations[2].allocated >= 2

\* the positions of the input demands with an effective score >= 64, in
\* input order, followed by the positions of the others, in input order
RECURSIVE PositionsFrom(_, _)
PositionsFrom(i, eligible) ==
  IF i > Len(demands) THEN <<>>
  ELSE IF AtLeast64(i) = eligible
       THEN <<i>> \o PositionsFrom(i + 1, eligible)
       ELSE PositionsFrom(i + 1, eligible)

\* C26: report shape and order. The allocations of every report hold
\* exactly one entry per input demand, with that demand's agent_id and
\* requested = amount: the eligible demands first, in input order, then the
\* ineligible demands, in input order.
C26_ReportShapeAndOrder ==
  Returned =>
    /\ Len(report.allocations) = Len(demands)
    /\ \A i \in 1..Len(demands) :
         Cardinality({ k \in 1..Len(report.allocations) :
                         report.allocations[k].agent_id = i }) = 1
    /\ \A k \in 1..Len(report.allocations) :
         report.allocations[k].requested =
           demands[report.allocations[k].agent_id].amount
    /\ [k \in 1..Len(report.allocations) |-> report.allocations[k].agent_id]
         = PositionsFrom(1, TRUE) \o PositionsFrom(1, FALSE)

\* an ineligible demand stood between two eligible ones that ask for
\* different amounts; the report lists the first, the third, the second
C26_Witness ==
  /\ Returned
  /\ Len(demands) = 3
  /\ AtLeast64(1)
  /\ Below64(2)
  /\ AtLeast64(3)
  /\ demands[1].amount # demands[3].amount
  /\ demands[2].amount > 0
  /\ report.allocations[1].agent_id = 1
  /\ report.allocations[2].agent_id = 3
  /\ report.allocations[3].agent_id = 2

\* the input demands of timezone group tz
GroupOf(tz) == { i \in 1..Len(demands) : TzOf(demands[i]) = tz }

\* C27: parity covers every allocation. The parity is computed over all
\* allocations of the report, grouped by timezone (demands without one
\* form a default group), an ineligible demand counting in its group with
\* fill rate 0; so a report in which one group is fully served and another
\* group holds only ineligible demands has a parity below 100.
C27_ParityCoversEveryone ==
  Returned =>
    \A y, z \in { TzOf(demands[i]) : i \in 1..Len(demands) } :
      (/\ \A i \in GroupOf(y) : AtLeast64(i)
       /\ \A k \in 1..Len(report.allocations) :
            report.allocations[k].agent_id \in GroupOf(y) =>
              report.allocations[k].fill_rate = [n |-> 1, d |-> 1]
       /\ \A i \in GroupOf(z) : Below64(i))
      => RLt(report.timezone_parity, Rat(100, 1))

\* C28: one audit record per call. Every call of allocateResources, on
\* the normal path and on the no-eligible-demand path, creates exactly one
\* audit trail entry: none when the call starts or while it computes, one
\* as it returns, when the allocation has been computed (on the normal
\* path the loop is over). The provenance of the returned report carries
\* an atom_tag that starts with ATOM-ALLOC and the trail id returned for
\* that entry.
C28_Provenance ==
  Returned =>
    /\ report.atom_tag[1] = "ATOM-ALLOC"
    /\ report.trail_id = trail
    /\ trail >= 1

C28_Step ==
  IF pc # "done" /\ pc' = "done"
  THEN /\ trail' = trail + 1
       /\ report'.trail_id = trail'
       /\ \/ pc = "metrics"
          \/ pc = "start" /\ \A i \in 1..Len(demands) : ~AtLeast64(i)
  ELSE trail' = trail

C28_OneAuditRecordPerCall == []C28_Provenance /\ [][C28_Step]_vars

\* a second call returned on the no-eligible-demand path after a first
\* call that ran the loop: two calls, two entries
C28_Witness ==
  /\ Returned
  /\ earlier.set
  /\ earlier.report.trail_id = 1
  /\ Len(earlier.demands) > 0
  /\ Len(demands) = 0
  /\ report.trail_id = 2
  /\ trail = 2

\* the call that just returned has the capacity and, but for the scores
\* of eligible demands, the demands of the remembered call
ScoreVariant ==
  /\ Returned
  /\ earlier.set
  /\ earlier.capacity = capacity
  /\ SameButScores(demands, earlier.demands)

\* C29: the score acts only as a gate. Two calls whose demands differ only
\* in coherence_score values that are all >= 64 or absent return the same
\* allocations, totals, efficiency and fairness metrics.
C29_ScoreOnlyGates ==
  ScoreVariant => Results(report) = Results(earlier.report)

\* a call with a demand without score and a demand of score 64 is
\* repeated with scores 100 and none; the loop handed out a unit
C29_Witness ==
  /\ ScoreVariant
  /\ Len(demands) = 2
  /\ earlier.demands[1].coherence_score = NoScore
  /\ earlier.demands[2].coherence_score = 64
  /\ demands[1].coherence_score = 100
  /\ demands[2].coherence_score = NoScore
  /\ iterations >= 1


\* the keys a call was given, section by section
GivenKeys(call) ==
  CASE call.op = "updateFilters" -> [filters |-> call.arg]
    [] call.op = "updateToggles" -> [toggles |-> call.arg]
    [] call.op = "setConfigFromJSON" ->
         IF JsonParseThrows(call.arg) THEN NoOverride ELSE JsonParse(call.arg)
    [] OTHER -> NoOverride

\* cfg with the given keys set and every other key as it was
WithGivenKeys(cfg, given) ==
  [s \in DOMAIN cfg |->
     [k \in DOMAIN cfg[s] \cup DOMAIN Part(given, s) |->
        IF k \in DOMAIN Part(given, s) THEN Part(given, s)[k] ELSE cfg[s][k]]]

\* coherenceBaseline < 0.5 or > 1.0, or an unknown noiseScrub level
FailsValidation(cfg) ==
  \/ cfg.filters.coherenceBaseline \notin 50..100
  \/ cfg.filters.noiseScrub \notin {"low", "medium", "high"}

\* the call must throw: the text is no JSON, or the configuration that
\* updateFilters or setConfigFromJSON would produce fails validation
MustThrow(call) ==
  /\ call.op \in {"updateFilters", "setConfigFromJSON"}
  /\ \/ call.op = "setConfigFromJSON" /\ JsonParseThrows(call.arg)
     \/ FailsValidation(WithGivenKeys(config, GivenKeys(call)))

\* the history grew by exactly one entry, which records cfg
OneEntryAppended(cfg) ==
  /\ Len(configHistory') = Len(configHistory) + 1
  /\ SubSeq(configHistory', 1, Len(configHistory)) = configHistory
  /\ configHistory'[Len(configHistory')].config = cfg

\* what the call did is what the claim says of a call that throws or of
\* a call that is given keys
ThrewOrChangedGivenKeys ==
  IF MustThrow(lastCall')
  THEN /\ outcome' = "threw"
       /\ config' = config
       /\ configHistory' = configHistory
  ELSE /\ outcome' = "returned"
       /\ config' = WithGivenKeys(config, GivenKeys(lastCall'))
       /\ OneEntryAppended(config')

C30_StepAsStated ==
  (updates' = updates + 1 /\ lastCall'.op # "constructor") =>
    ThrewOrChangedGivenKeys

\* C30 as stated: ConfigurationManager updates are all-or-nothing.  When
\* updateFilters or setConfigFromJSON would produce a configuration that
\* fails validation the call throws and leaves the configuration and the
\* history exactly as they were; a call of updateFilters, updateToggles,
\* setConfigFromJSON or resetToDefault that succeeds appends exactly one
\* history entry and changes only the keys it was given.  resetToDefault
\* is given no key, and changes every key that is not at its default.
C30_AsStated == [][C30_StepAsStated]_vars

C30_Step ==
  (updates' = updates + 1 /\ lastCall'.op # "constructor") =>
    IF lastCall'.op = "resetToDefault"
    THEN /\ outcome' = "returned"
         /\ config' = DEFAULT_CONFIG
         /\ OneEntryAppended(DEFAULT_CONFIG)
    ELSE ThrewOrChangedGivenKeys

\* C30, amended: ConfigurationManager updates are all-or-nothing.  When
\* updateFilters or setConfigFromJSON would produce a configuration that
\* fails validation (coherenceBaseline < 0.5 or > 1.0, or an unknown
\* noiseScrub level) the call throws and leaves the configuration and
\* the history exactly as they were; a call of updateFilters,
\* updateToggles or setConfigFromJSON that succeeds appends exactly one
\* history entry and changes only the keys it was given; resetToDefault
\* always succeeds, appends exactly one history entry and sets every key
\* to its value in DEFAULT_CONFIG.
C30_AllOrNothing == [][C30_Step]_vars

\* a JSON import with a coherenceBaseline of 0.4 and a toggle has thrown
\* after a successful update: the toggle is not applied and the history
\* holds the two earlier entries only
C30_Witness ==
  /\ lastCall = [op |-> "setConfigFromJSON", arg |-> JsonLowBaseline]
  /\ outcome = "threw"
  /\ updates = 2
  /\ Len(configHistory) = 2
  /\ configHistory[2].reason = "Manual update"
  /\ config = configHistory[2].config
  /\ config.toggles.encryptPii
  /\ config.filters.coherenceBaseline = 100

====
